---- MODULE Spec2Model ----
(***************************************************************************)
(* A model of the locale/path resolver (utils/content) and of the AI       *)
(* translation command-line flow (scripts/translate.ts with its helpers    *)
(* scripts/lib/article-scanner.ts and scripts/lib/translator.ts).          *)
(*                                                                         *)
(* Strings of the program are sequences of one-character strings, so that  *)
(* split, join, trim and concatenation are computed and not assumed.       *)
(***************************************************************************)
EXTENDS Integers, Sequences, FiniteSets, TLC

VARIABLES
    config,         \* the site configuration (site.config.ts)
    id,             \* resolver: the content identifier handed to the resolver
    params,         \* resolver: result of generatePathParams(id)
    exLocale,       \* resolver: result of extractLocaleFromId(id)
    exPath,         \* resolver: result of extractPathFromId(id)
    TRANSLATE_API_KEY, \* translate: process.env.TRANSLATE_API_KEY
    collection,     \* translate: the selected content type
    files,          \* translate: files of the article directory, path -> text
    dirs,           \* translate: sub-directories of the article directory
    article,        \* translate: the Article record built by the scan
    sourceLocale,   \* translate: the selected source locale
    targetLocales,  \* translate: the selected target locales, in order
    idx,            \* translate: position of the for-of loop in targetLocales
    sourceContent,  \* translate: text of the source file
    translatedData, \* translate: translateArticle's frontmatter under construction
    stats,          \* translate: {success, failed}
    skipped,        \* translate (history): locales skipped as already existing
    calls,          \* translate (history): requests sent to the translation service
    writes,         \* translate (history): writeFileSync calls that wrote a file
    external,       \* translate (history): files created by other processes
    pc              \* translate: position of the script

rvars == <<id, params, exLocale, exPath>>

tvars == <<TRANSLATE_API_KEY, collection, files, dirs, article, sourceLocale,
           targetLocales, idx, sourceContent, translatedData, stats, skipped,
           calls, writes, external, pc>>

----------------------------------------------------------------------------
(* Bounds *)

MaxIdLen == 3

\* files that other processes create in the article directory during a run
MaxExternal == 1

----------------------------------------------------------------------------
(* Strings *)

sep == "/"

\* JavaScript undefined; no string of the program equals it.
undefined == <<"undefined">>

\* a result that has not been computed yet
NotRun == <<"not-run">>

en == <<"e", "n">>
zh_cn == <<"z", "h", "-", "c", "n">>
ja == <<"j", "a">>

RECURSIVE StringsUpTo(_, _)
StringsUpTo(chars, n) ==
    IF n = 0 THEN {<<>>}
    ELSE LET shorter == StringsUpTo(chars, n - 1)
         IN  shorter \cup {Append(s, c) : s \in shorter, c \in chars}

\* String.prototype.split("/"): never empty, "" splits into one empty segment
RECURSIVE SplitFrom(_, _, _, _)
SplitFrom(s, i, cur, acc) ==
    IF i > Len(s) THEN Append(acc, cur)
    ELSE IF s[i] = sep THEN SplitFrom(s, i + 1, <<>>, Append(acc, cur))
    ELSE SplitFrom(s, i + 1, Append(cur, s[i]), acc)

Split(s) == SplitFrom(s, 1, <<>>, <<>>)

\* Array.prototype.join("/")
RECURSIVE Join(_)
Join(segs) ==
    IF Len(segs) = 0 THEN <<>>
    ELSE IF Len(segs) = 1 THEN segs[1]
    ELSE segs[1] \o <<sep>> \o Join(Tail(segs))

\* Array.prototype.pop() on a non-empty array: its last element
Pop(segs) == segs[Len(segs)]

\* Array.prototype.slice(0, -1)
SliceButLast(segs) == SubSeq(segs, 1, Len(segs) - 1)

\* a test for the empty string that lets undefined through
Falsy_EmptyOnly(v) == v = <<>>

\* JavaScript truthiness of a string or undefined, as tested by !x, x || y, if (x)
Falsy(v) == v = undefined \/ v = <<>>

----------------------------------------------------------------------------
(* Configuration *)

\* the configuration shipped in site.config.ts
siteConfig == [i18n |-> [locales |-> <<en, zh_cn, ja>>, defaultLocale |-> zh_cn]]

Range(f) == {f[i] : i \in DOMAIN f}

\* configurations a site owner can write: a non-empty locale list and a default
\* that is a member of it
LocaleLists == {<<en, zh_cn, ja>>, <<zh_cn, en>>, <<zh_cn>>, <<en>>}

Configs ==
    UNION {{[i18n |-> [locales |-> ls, defaultLocale |-> d]] : d \in Range(ls)} :
               ls \in LocaleLists}

\* site.config.ts: monolocale
monolocale == Len(config.i18n.locales) = 1

----------------------------------------------------------------------------
(* Locale/path resolver *)

extractLocaleFromId(i) ==
    LET last == Pop(Split(i))
    IN  IF Falsy(last) THEN config.i18n.defaultLocale ELSE last

\* slice(1) in place of slice(0, -1)
extractPathFromId_DropFirst(i) ==
    IF monolocale THEN i ELSE Join(Tail(Split(i)))

extractPathFromId(i) ==
    IF monolocale THEN i ELSE Join(SliceButLast(Split(i)))

isContentForLocale(i, locale) ==
    IF monolocale THEN TRUE ELSE extractLocaleFromId(i) = locale

\* the default locale is not mapped to undefined
generatePathParams_KeepDefault(i) ==
    IF monolocale THEN [locale |-> undefined, id |-> i]
    ELSE [locale |-> extractLocaleFromId(i), id |-> extractPathFromId(i)]

\* the single-locale early return is missing
generatePathParams_NoMono(i) ==
    LET locale == extractLocaleFromId(i)
        path == extractPathFromId(i)
    IN  [locale |-> IF locale = config.i18n.defaultLocale THEN undefined ELSE locale,
         id |-> path]

generatePathParams(i) ==
    IF monolocale THEN [locale |-> undefined, id |-> i]
    ELSE LET locale == extractLocaleFromId(i)
             path == extractPathFromId(i)
         IN  [locale |-> IF locale = config.i18n.defaultLocale THEN undefined ELSE locale,
              id |-> path]

IdChars == {"a", sep}

RawIds == StringsUpTo(IdChars, MaxIdLen)

\* identifiers handed to the resolver: arbitrary short strings, and the
\* "<path>/<locale>" identifiers of a multi-locale content collection
ContentIds ==
    RawIds \cup {p \o <<sep>> \o l : p \in RawIds, l \in {en, zh_cn, ja}}
           \cup {en, zh_cn, ja}

\* the translation script is not running
TranslateIdle ==
    /\ TRANSLATE_API_KEY = undefined
    /\ collection = <<>>
    /\ files = <<>>
    /\ dirs = {}
    /\ article = [locales |-> {}, hasSubdirectory |-> <<>>]
    /\ sourceLocale = undefined
    /\ targetLocales = <<>>
    /\ idx = 0
    /\ sourceContent = undefined
    /\ translatedData = <<>>
    /\ stats = [success |-> <<>>, failed |-> <<>>]
    /\ skipped = <<>>
    /\ calls = <<>>
    /\ writes = <<>>
    /\ external = {}
    /\ pc = "idle"

InitResolver ==
    /\ config \in Configs
    /\ id \in ContentIds
    /\ params = [locale |-> NotRun, id |-> NotRun]
    /\ exLocale = NotRun
    /\ exPath = NotRun
    /\ TranslateIdle

CallGeneratePathParams ==
    /\ params.id = NotRun
    /\ params' = generatePathParams(id)
    /\ UNCHANGED <<config, id, exLocale, exPath, tvars>>

CallExtractLocaleFromId ==
    /\ exLocale = NotRun
    /\ exLocale' = extractLocaleFromId(id)
    /\ UNCHANGED <<config, id, params, exPath, tvars>>

CallExtractPathFromId ==
    /\ exPath = NotRun
    /\ exPath' = extractPathFromId(id)
    /\ UNCHANGED <<config, id, params, exLocale, tvars>>

NextResolver ==
    \/ CallGeneratePathParams
    \/ CallExtractLocaleFromId
    \/ CallExtractPathFromId

vars == <<config, rvars, tvars>>

SpecResolver == InitResolver /\ [][NextResolver]_vars

----------------------------------------------------------------------------
(* Properties of the resolver *)

\* the strings p such that i = p + "/" + s for a segment s
Prefixes(i) == {SubSeq(i, 1, n) : n \in 0..Len(i)}
NoSep(s) == \A k \in 1..Len(s) : s[k] # sep
Suffix(i, p) == SubSeq(i, Len(p) + 1, Len(i))

\* C8: in multi-locale mode generatePathParams(p + "/" + l), l a configured
\* locale, has id p, and locale undefined if l is the default locale, else l;
\* the returned locale is never the default locale's code.
C8_DefaultLocaleOmitted ==
    (params.id # NotRun /\ ~monolocale) =>
        /\ params.locale # config.i18n.defaultLocale
        /\ \A p \in Prefixes(id) : \A l \in Range(config.i18n.locales) :
              id = p \o <<sep>> \o l =>
                  /\ params.id = p
                  /\ params.locale = IF l = config.i18n.defaultLocale THEN undefined ELSE l

C8_Witness_Default ==
    /\ params.id # NotRun /\ ~monolocale
    /\ id = <<"a", sep, "a", sep>> \o config.i18n.defaultLocale
    /\ params = [locale |-> undefined, id |-> <<"a", sep, "a">>]

C8_Witness_Other ==
    /\ params.id # NotRun /\ ~monolocale
    /\ config.i18n.defaultLocale = zh_cn
    /\ id = <<"a", sep>> \o ja
    /\ params = [locale |-> ja, id |-> <<"a">>]

\* C9: in single-locale mode generatePathParams(id) is {locale: undefined, id}
C9_MonolocaleIdentity ==
    (params.id # NotRun /\ monolocale) => params = [locale |-> undefined, id |-> id]

C9_Witness ==
    /\ params.id # NotRun /\ monolocale
    /\ id = <<"a", sep>> \o en
    /\ params.id = id /\ params.locale = undefined

\* identifiers with at least two "/"-separated segments: those holding a "/"
TwoSegments(i) == \E k \in 1..Len(i) : i[k] = sep

\* C10 as stated: in multi-locale mode, for every identifier with at least two
\* segments, extractPathFromId removes the final segment and its separator and
\* extractLocaleFromId is the final segment.
C10_Original ==
    (~monolocale /\ TwoSegments(id)) =>
        \A p \in Prefixes(id) :
            (Len(p) < Len(id) /\ id[Len(p) + 1] = sep /\ NoSep(Suffix(id, p \o <<sep>>))) =>
                /\ exPath # NotRun => exPath = p
                /\ exLocale # NotRun => exLocale = Suffix(id, p \o <<sep>>)

\* C10 amended: the same, except that an empty final segment (an identifier
\* ending in "/") yields the configured default locale.
C10_Amended ==
    (~monolocale /\ TwoSegments(id)) =>
        \A p \in Prefixes(id) :
            (Len(p) < Len(id) /\ id[Len(p) + 1] = sep /\ NoSep(Suffix(id, p \o <<sep>>))) =>
                /\ exPath # NotRun => exPath = p
                /\ exLocale # NotRun =>
                      exLocale = IF Suffix(id, p \o <<sep>>) = <<>>
                                 THEN config.i18n.defaultLocale
                                 ELSE Suffix(id, p \o <<sep>>)

C10_Witness ==
    /\ ~monolocale
    /\ id = <<"a", sep, "a", sep>> \o ja
    /\ exPath = <<"a", sep, "a">>
    /\ exLocale = ja

----------------------------------------------------------------------------
(* Strings and files of the translation flow *)

Whitespace == {" ", "\n", "\t"}

\* String.prototype.trim()
RECURSIVE TrimLeft(_)
TrimLeft(s) ==
    IF Len(s) > 0 /\ s[1] \in Whitespace THEN TrimLeft(Tail(s)) ELSE s

RECURSIVE TrimRight(_)
TrimRight(s) ==
    IF Len(s) > 0 /\ s[Len(s)] \in Whitespace
    THEN TrimRight(SubSeq(s, 1, Len(s) - 1)) ELSE s

Trim(s) == TrimRight(TrimLeft(s))

\* String.prototype.endsWith
EndsWith(s, suf) ==
    Len(s) >= Len(suf) /\ SubSeq(s, Len(s) - Len(suf) + 1, Len(s)) = suf

md == <<".", "m", "d">>
mdx == <<".", "m", "d", "x">>
index_md == <<"i", "n", "d", "e", "x">> \o md

\* path.extname: from the last "." on, "" when there is none or it leads the name
extname(file) ==
    LET dots == {k \in 2..Len(file) : file[k] = "."}
    IN  IF dots = {} THEN <<>>
        ELSE SubSeq(file, CHOOSE k \in dots : \A j \in dots : j <= k, Len(file))

\* path.basename(file, ext)
basename(file, ext) ==
    IF ext # <<>> /\ Len(file) > Len(ext) /\ EndsWith(file, ext)
    THEN SubSeq(file, 1, Len(file) - Len(ext))
    ELSE file

\* a path below the article directory baseDir is the sequence of its names
\* (path.join(baseDir, ...))

\* the text of a content file: its frontmatter mapping and its markdown body
\* gray-matter: matter(text) parses, matter.stringify(content, data) serialises
\* and ends the body with a newline
matter(text) == [data |-> text.data, content |-> text.content]

stringify(content, data) ==
    [data |-> data,
     content |-> IF EndsWith(content, <<"\n">>) THEN content ELSE content \o <<"\n">>]

\* data.key of a frontmatter object
Get(data, key) == IF key \in DOMAIN data THEN data[key] ELSE undefined

\* the object is replaced by one holding only the assigned key
Put_Replace(data, key, value) == [k \in {key} |-> value]

\* data.key = value
Put(data, key, value) ==
    [k \in DOMAIN data \cup {key} |-> IF k = key THEN value ELSE data[k]]

body == <<"B", "\n">>

SourceDatas ==
    { [title |-> <<"T">>, description |-> <<"D">>, timestamp |-> <<"2", "5">>],
      [title |-> <<"T">>, timestamp |-> <<"2", "5">>],
      [title |-> <<>>, description |-> <<"D">>, timestamp |-> <<"2", "5">>] }

\* text of a file another process writes
externalText == [data |-> [title |-> <<"E">>], content |-> <<"E", "\n">>]

ContentTypes == {<<"note">>, <<"jotting">>, <<"preface">>}

articleId == <<"demo">>

FsLocales == {en, zh_cn, ja}

\* how a locale is stored in the article directory when the script starts
Shapes == {"none", "md", "mdx", "dir", "emptydir", "both"}

\* the article directories the script is started on: each locale stored in
\* some way, at most one of them other than as locale.md or locale/index.md
InitialShapes ==
    {f \in [FsLocales -> Shapes] :
        \A l, k \in FsLocales :
            (f[l] \in {"mdx", "emptydir", "both"} /\ f[k] \in {"mdx", "emptydir", "both"})
                => l = k}

FilesOf(l, shape) ==
    CASE shape = "md" -> {<<l \o md>>}
      [] shape = "mdx" -> {<<l \o mdx>>}
      [] shape = "dir" -> {<<l, index_md>>}
      [] shape = "both" -> {<<l \o md>>, <<l, index_md>>}
      [] OTHER -> {}

DirsOf(l, shape) == IF shape \in {"dir", "emptydir", "both"} THEN {l} ELSE {}

\* the file map files with text written at path
WriteFile(fs, path, text) ==
    [q \in DOMAIN fs \cup {path} |-> IF q = path THEN text ELSE fs[q]]

----------------------------------------------------------------------------
(* Article scanner *)

\* fs.readdirSync(articleDir): names of the files and directories in it
Entries == {q[1] : q \in {r \in DOMAIN files : Len(r) = 1}} \cup dirs

IsFile(name) == <<name>> \in DOMAIN files

\* locales found stored flat: article/locale.md or article/locale.mdx
FlatLocales ==
    {basename(f, extname(f)) :
        f \in {e \in Entries : IsFile(e) /\ (EndsWith(e, md) \/ EndsWith(e, mdx))}}

\* locales found stored as a directory: article/locale/index.md
DirLocales == {d \in dirs : ~IsFile(d) /\ <<d, index_md>> \in DOMAIN files}

\* findArticles, for the article directory: the Article records it can build.
\* A locale stored both ways gets the flag of whichever entry is read last.
findArticles ==
    {[locales |-> FlatLocales \cup DirLocales, hasSubdirectory |-> h] :
        h \in {g \in [FlatLocales \cup DirLocales -> BOOLEAN] :
                  \A l \in DOMAIN g :
                      /\ l \notin DirLocales => ~g[l]
                      /\ l \notin FlatLocales => g[l]}}

Thrown == [threw |-> TRUE, value |-> undefined]
Returned(v) == [threw |-> FALSE, value |-> v]

\* article.hasSubdirectory.get(locale), undefined (falsy) for an unknown locale
HasSubdirectory(a, locale) ==
    locale \in DOMAIN a.hasSubdirectory /\ a.hasSubdirectory[locale]

getArticlePath(a, locale) ==
    IF HasSubdirectory(a, locale) THEN Returned(<<locale, index_md>>)
    ELSE IF <<locale \o md>> \in DOMAIN files THEN Returned(<<locale \o md>>)
    ELSE IF <<locale \o mdx>> \in DOMAIN files THEN Returned(<<locale \o mdx>>)
    ELSE Thrown

\* the flag of the target locale is read in place of the source locale's
getTargetArticlePath_TargetFlag(a, source, target) ==
    IF HasSubdirectory(a, target)
    THEN [path |-> <<target, index_md>>, mkdir |-> {target}]
    ELSE [path |-> <<target \o md>>, mkdir |-> {}]

\* getTargetArticlePath: the path, and the directory fs.mkdirSync creates
getTargetArticlePath(a, source, target) ==
    IF HasSubdirectory(a, source)
    THEN [path |-> <<target, index_md>>, mkdir |-> {target}]
    ELSE [path |-> <<target \o md>>, mkdir |-> {}]

targetExists(a, target) == target \in a.locales

----------------------------------------------------------------------------
(* Translator *)

\* chat.completions.create either throws or answers with a message whose
\* content is null or a string
Responses ==
    {[kind |-> "throw", content |-> <<>>], [kind |-> "null", content |-> <<>>]} \cup
    {[kind |-> "text", content |-> c] : c \in {<<>>, <<" ">>, <<"x">>, <<" ", "x", "\n">>}}

\* response.choices[0].message.content?.trim()
TrimmedContent(r) == IF r.kind = "null" THEN undefined ELSE Trim(r.content)

\* stand for the entries of LANGUAGE_NAMES
getLanguageName(locale) ==
    CASE locale = en -> <<"English">>
      [] locale = zh_cn -> <<"Zhongwen">>
      [] locale = ja -> <<"Nihongo">>
      [] OTHER -> locale

\* the locale prefix is added for the default locale too
generateSourceUrl_AlwaysPrefix(coll, art, source) ==
    <<sep>> \o source \o <<sep>> \o coll \o <<sep>> \o art

generateSourceUrl(coll, art, source) ==
    IF source = config.i18n.defaultLocale
    THEN <<sep>> \o coll \o <<sep>> \o art
    ELSE <<sep>> \o source \o <<sep>> \o coll \o <<sep>> \o art

\* the three templates, "> [!NOTE]\n> ...[<language> version](<url>)...\n\n"
generateWarningBox(coll, art, source, target) ==
    LET sourceUrl == generateSourceUrl(coll, art, source)
        template == IF target \in {en, zh_cn, ja} THEN target ELSE en
    IN  <<"> [!NOTE]", "\n", "> ">> \o template \o <<" [">> \o getLanguageName(source)
            \o <<"](">> \o sourceUrl \o <<")", "\n", "\n">>

\* the "|| text" fallback for an empty answer is missing
translateText_NoFallback(text, r) ==
    IF r.kind = "throw" THEN text ELSE TrimmedContent(r)

\* translateText: the text for the field given the service's response
translateText(text, r) ==
    IF r.kind = "throw" THEN text
    ELSE IF Falsy(TrimmedContent(r)) THEN text ELSE TrimmedContent(r)

\* the check for an empty translation is missing
translateMarkdown_NoEmptyCheck(r) ==
    IF r.kind = "throw" THEN Thrown ELSE Returned(TrimmedContent(r))

\* translateMarkdown: throws on a failed call and on an empty translation
translateMarkdown(r) ==
    IF r.kind = "throw" THEN Thrown
    ELSE IF Falsy(TrimmedContent(r)) THEN Thrown ELSE Returned(TrimmedContent(r))

\* createTranslator(): throws without a key
createTranslator == IF Falsy(TRANSLATE_API_KEY) THEN Thrown ELSE Returned(TRANSLATE_API_KEY)

----------------------------------------------------------------------------
(* The translation script, scripts/translate.ts *)

ResolverIdle ==
    /\ id = <<>>
    /\ params = [locale |-> NotRun, id |-> NotRun]
    /\ exLocale = NotRun
    /\ exPath = NotRun

ApiKeys == {undefined, <<>>, <<"s", "k">>}

Init ==
    /\ ResolverIdle
    /\ config \in Configs
    /\ TRANSLATE_API_KEY \in ApiKeys
    /\ collection = <<>>
    /\ \E shapeOf \in InitialShapes : \E data \in SourceDatas :
          /\ files = [q \in UNION {FilesOf(l, shapeOf[l]) : l \in FsLocales} |->
                         [data |-> data, content |-> body]]
          /\ dirs = UNION {DirsOf(l, shapeOf[l]) : l \in FsLocales}
    /\ article = [locales |-> {}, hasSubdirectory |-> <<>>]
    /\ sourceLocale = undefined
    /\ targetLocales = <<>>
    /\ idx = 0
    /\ sourceContent = undefined
    /\ translatedData = <<>>
    /\ stats = [success |-> <<>>, failed |-> <<>>]
    /\ skipped = <<>>
    /\ calls = <<>>
    /\ writes = <<>>
    /\ external = {}
    /\ pc = "start"

\* lines 16-24: the environment check
CheckApiKey ==
    /\ pc = "start"
    /\ pc' = IF Falsy(TRANSLATE_API_KEY) THEN "exit1" ELSE "selectCollection"
    /\ UNCHANGED <<config, rvars, TRANSLATE_API_KEY, collection, files, dirs, article,
                   sourceLocale, targetLocales, idx, sourceContent, translatedData,
                   stats, skipped, calls, writes, external>>

\* lines 26-39
SelectCollection ==
    /\ pc = "selectCollection"
    /\ \E c \in ContentTypes : collection' = c
    /\ pc' = "scan"
    /\ UNCHANGED <<config, rvars, TRANSLATE_API_KEY, files, dirs, article,
                   sourceLocale, targetLocales, idx, sourceContent, translatedData,
                   stats, skipped, calls, writes, external>>

\* lines 41-67: scan, and select the article; a directory without locale
\* files is no article
ScanArticles ==
    /\ pc = "scan"
    /\ \E a \in findArticles :
          /\ article' = a
          /\ pc' = IF a.locales = {} THEN "exit0" ELSE "selectSource"
    /\ UNCHANGED <<config, rvars, TRANSLATE_API_KEY, collection, files, dirs,
                   sourceLocale, targetLocales, idx, sourceContent, translatedData,
                   stats, skipped, calls, writes, external>>

\* config.i18n.locales.filter(l => !article.locales.has(l))
availableTargets == SelectSeq(config.i18n.locales, LAMBDA l : l \notin article.locales)

\* lines 69-90
SelectSourceLocale ==
    /\ pc = "selectSource"
    /\ \E l \in article.locales : sourceLocale' = l
    /\ pc' = IF Len(availableTargets) = 0 THEN "exit0" ELSE "selectTargets"
    /\ UNCHANGED <<config, rvars, TRANSLATE_API_KEY, collection, files, dirs, article,
                   targetLocales, idx, sourceContent, translatedData,
                   stats, skipped, calls, writes, external>>

\* the non-empty selections multiselect can return: distinct options, in the
\* order the user ticked them
Selections(options) ==
    {sel \in UNION {[1..n -> Range(options)] : n \in 1..Len(options)} :
        \A i, j \in 1..Len(sel) : sel[i] = sel[j] => i = j}

\* lines 92-104
SelectTargetLocales ==
    /\ pc = "selectTargets"
    /\ \E sel \in Selections(availableTargets) : targetLocales' = sel
    /\ pc' = "confirm"
    /\ UNCHANGED <<config, rvars, TRANSLATE_API_KEY, collection, files, dirs, article,
                   sourceLocale, idx, sourceContent, translatedData,
                   stats, skipped, calls, writes, external>>

\* lines 106-118, the user confirms
Confirm ==
    /\ pc = "confirm"
    /\ pc' = "createTranslator"
    /\ UNCHANGED <<config, rvars, TRANSLATE_API_KEY, collection, files, dirs, article,
                   sourceLocale, targetLocales, idx, sourceContent, translatedData,
                   stats, skipped, calls, writes, external>>

\* isCancel(...) at any prompt, or the confirmation declined: process.exit(0)
Cancel ==
    /\ pc \in {"selectCollection", "selectSource", "selectTargets", "confirm"}
    /\ pc' = "exit0"
    /\ UNCHANGED <<config, rvars, TRANSLATE_API_KEY, collection, files, dirs, article,
                   sourceLocale, targetLocales, idx, sourceContent, translatedData,
                   stats, skipped, calls, writes, external>>

\* lines 123-130
CreateTranslator ==
    /\ pc = "createTranslator"
    /\ pc' = IF createTranslator.threw THEN "exit1" ELSE "readSource"
    /\ UNCHANGED <<config, rvars, TRANSLATE_API_KEY, collection, files, dirs, article,
                   sourceLocale, targetLocales, idx, sourceContent, translatedData,
                   stats, skipped, calls, writes, external>>

\* lines 132-140; an exception reaches the .catch of line 195
ReadSource ==
    /\ pc = "readSource"
    /\ LET sourcePath == getArticlePath(article, sourceLocale)
       IN  IF sourcePath.threw
           THEN /\ pc' = "exit1"
                /\ UNCHANGED <<sourceContent, stats, idx>>
           ELSE /\ sourceContent' = files[sourcePath.value]
                /\ stats' = [success |-> <<>>, failed |-> <<>>]
                /\ idx' = 1
                /\ pc' = "loop"
    /\ UNCHANGED <<config, rvars, TRANSLATE_API_KEY, collection, files, dirs, article,
                   sourceLocale, targetLocales, translatedData,
                   skipped, calls, writes, external>>

\* a request sent to the translation service, not answered yet
Call(field, locale) == [field |-> field, locale |-> locale, answer |-> "pending"]

\* the service failed to translate: the call threw, or the message is null,
\* empty or only whitespace
Bad(r) ==
    \/ r.kind \in {"throw", "null"}
    \/ \A k \in 1..Len(r.content) : r.content[k] \in Whitespace

\* the log of calls, the pending (last) one answered by r
Answered(cs, r) ==
    [cs EXCEPT ![Len(cs)].answer = IF Bad(r) THEN "bad" ELSE "good"]

\* the description and the body are requested together, not one after the other
AfterTitle_Parallel(cs, data, target) ==
    IF ~Falsy(Get(data, "description"))
    THEN /\ calls' = Append(Append(cs, Call("description", target)), Call("body", target))
         /\ pc' = "description"
    ELSE /\ calls' = Append(cs, Call("body", target))
         /\ pc' = "body"

\* translateArticle after the title: lines 164-171, up to the next await
AfterTitle(cs, data, target) ==
    IF ~Falsy(Get(data, "description"))
    THEN /\ calls' = Append(cs, Call("description", target))
         /\ pc' = "description"
    ELSE /\ calls' = Append(cs, Call("body", target))
         /\ pc' = "body"

\* stats.success.push(targetLocale), line 162
RecordSuccess(st, locale) == [st EXCEPT !.success = Append(@, locale)]

\* the catch block pushes to the wrong list
RecordFailure_AsSuccess(st, locale) == [st EXCEPT !.success = Append(@, locale)]

\* stats.failed.push(targetLocale), line 165
RecordFailure(st, locale) == [st EXCEPT !.failed = Append(@, locale)]

\* lines 143-155 and translateArticle lines 153-161, up to the first await;
\* after the last locale, the summary of lines 169-194
LoopStep ==
    /\ pc = "loop"
    /\ IF idx > Len(targetLocales)
       THEN /\ pc' = "done"
            /\ UNCHANGED <<idx, skipped, translatedData, calls>>
       ELSE LET targetLocale == targetLocales[idx]
                data == matter(sourceContent).data
            IN  IF targetExists(article, targetLocale)
                THEN /\ skipped' = Append(skipped, targetLocale)
                     /\ idx' = idx + 1
                     /\ UNCHANGED <<pc, translatedData, calls>>
                ELSE /\ translatedData' = data
                     /\ UNCHANGED <<idx, skipped>>
                     /\ IF ~Falsy(Get(data, "title"))
                        THEN /\ calls' = Append(calls, Call("title", targetLocale))
                             /\ pc' = "title"
                        ELSE AfterTitle(calls, data, targetLocale)
    /\ UNCHANGED <<config, rvars, TRANSLATE_API_KEY, collection, files, dirs, article,
                   sourceLocale, targetLocales, sourceContent, stats, writes, external>>

\* translateText answers for the title: lines 161-171
TitleResponse ==
    /\ pc = "title"
    /\ \E r \in Responses :
          LET data == matter(sourceContent).data
          IN  /\ translatedData' = Put(translatedData, "title", translateText(data.title, r))
              /\ AfterTitle(Answered(calls, r), data, targetLocales[idx])
    /\ UNCHANGED <<config, rvars, TRANSLATE_API_KEY, collection, files, dirs, article,
                   sourceLocale, targetLocales, idx, sourceContent,
                   stats, skipped, writes, external>>

\* translateText answers for the description: lines 166-171
DescriptionResponse ==
    /\ pc = "description"
    /\ \E r \in Responses :
          LET data == matter(sourceContent).data
          IN  /\ translatedData' =
                    Put(translatedData, "description", translateText(data.description, r))
              /\ calls' = Append(Answered(calls, r), Call("body", targetLocales[idx]))
    /\ pc' = "body"
    /\ UNCHANGED <<config, rvars, TRANSLATE_API_KEY, collection, files, dirs, article,
                   sourceLocale, targetLocales, idx, sourceContent,
                   stats, skipped, writes, external>>

\* getTargetArticlePath is called, and creates the directory, before the
\* outcome of translateArticle is known
BodyResponse_MkdirFirst ==
    /\ pc = "body"
    /\ \E r \in Responses :
          LET targetLocale == targetLocales[idx]
              translatedContent == translateMarkdown(r)
              target == getTargetArticlePath(article, sourceLocale, targetLocale)
          IN  /\ calls' = Answered(calls, r)
              /\ dirs' = dirs \cup target.mkdir
              /\ IF translatedContent.threw
                 THEN /\ stats' = RecordFailure(stats, targetLocale)
                      /\ UNCHANGED <<files, writes>>
                 ELSE LET warningBox == generateWarningBox(collection, articleId,
                                                           sourceLocale, targetLocale)
                          finalContent == warningBox \o translatedContent.value
                          text == stringify(finalContent, translatedData)
                      IN  /\ files' = WriteFile(files, target.path, text)
                          /\ writes' = Append(writes,
                                 [path |-> target.path, locale |-> targetLocale,
                                  text |-> text,
                                  existed |-> target.path \in DOMAIN files])
                          /\ stats' = RecordSuccess(stats, targetLocale)
    /\ idx' = idx + 1
    /\ pc' = "loop"
    /\ UNCHANGED <<config, rvars, TRANSLATE_API_KEY, collection, article,
                   sourceLocale, targetLocales, sourceContent, translatedData,
                   skipped, external>>

\* translateMarkdown answers: translateArticle lines 171-178, then
\* translate.ts lines 157-166.  The content directory is writable:
\* fs.mkdirSync and fs.writeFileSync succeed.
BodyResponse ==
    /\ pc = "body"
    /\ \E r \in Responses :
          LET targetLocale == targetLocales[idx]
              translatedContent == translateMarkdown(r)
          IN  /\ calls' = Answered(calls, r)
              /\ IF translatedContent.threw
                 THEN /\ stats' = RecordFailure(stats, targetLocale)
                      /\ UNCHANGED <<files, dirs, writes>>
                 ELSE LET warningBox == generateWarningBox(collection, articleId,
                                                           sourceLocale, targetLocale)
                          finalContent == warningBox \o translatedContent.value
                          text == stringify(finalContent, translatedData)
                          target == getTargetArticlePath(article, sourceLocale, targetLocale)
                      IN  /\ dirs' = dirs \cup target.mkdir
                          /\ files' = WriteFile(files, target.path, text)
                          /\ writes' = Append(writes,
                                 [path |-> target.path, locale |-> targetLocale,
                                  text |-> text,
                                  existed |-> target.path \in DOMAIN files])
                          /\ stats' = RecordSuccess(stats, targetLocale)
    /\ idx' = idx + 1
    /\ pc' = "loop"
    /\ UNCHANGED <<config, rvars, TRANSLATE_API_KEY, collection, article,
                   sourceLocale, targetLocales, sourceContent, translatedData,
                   skipped, external>>

\* another process (an editor, a second run of the script) creates a locale
\* file of the article while the script waits for the translation service
ExternalCreate ==
    /\ pc \in {"title", "description", "body"}
    /\ Cardinality(external) < MaxExternal
    /\ \E l \in Range(targetLocales) : \E shape \in {"md", "dir"} :
          LET path == CHOOSE q \in FilesOf(l, shape) : TRUE
          IN  /\ path \notin DOMAIN files
              /\ files' = WriteFile(files, path, externalText)
              /\ dirs' = dirs \cup DirsOf(l, shape)
              /\ external' = external \cup {path}
    /\ UNCHANGED <<config, rvars, TRANSLATE_API_KEY, collection, article,
                   sourceLocale, targetLocales, idx, sourceContent, translatedData,
                   stats, skipped, calls, writes, pc>>

Next ==
    \/ CheckApiKey
    \/ SelectCollection
    \/ ScanArticles
    \/ SelectSourceLocale
    \/ SelectTargetLocales
    \/ Confirm
    \/ Cancel
    \/ CreateTranslator
    \/ ReadSource
    \/ LoopStep
    \/ TitleResponse
    \/ DescriptionResponse
    \/ BodyResponse
    \/ ExternalCreate

Spec == Init /\ [][Next]_vars

----------------------------------------------------------------------------
(* Properties of the translation flow *)

WriteLog == {writes[i] : i \in DOMAIN writes}

\* the storage shape of a locale file
ShapeOfPath(path) == IF Len(path) = 2 THEN "directory" ELSE "flat"

\* the files of the article that were there when the script started
InitialFiles == (DOMAIN files \ external) \ {w.path : w \in WriteLog}

\* C1: every file the tool writes has the storage shape of the source locale:
\* <target>/index.md in a directory that exists if the source is
\* directory-shaped, <target>.md if it is flat; so an article whose locale
\* files all had one shape still has one shape, the tool's files included.
C1_TargetMirrorsSourceShape ==
    /\ \A w \in WriteLog :
          IF HasSubdirectory(article, sourceLocale)
          THEN w.path = <<w.locale, index_md>> /\ w.locale \in dirs
          ELSE w.path = <<w.locale \o md>>
    /\ Cardinality({ShapeOfPath(q) : q \in InitialFiles}) = 1 =>
          Cardinality({ShapeOfPath(q) : q \in InitialFiles \cup {w.path : w \in WriteLog}}) = 1

\* "demo" has en/index.md only; ja is written to ja/index.md in a new directory
C1_Witness ==
    /\ pc = "done"
    /\ InitialFiles = {<<en, index_md>>}
    /\ sourceLocale = en
    /\ \E w \in WriteLog : w.locale = ja /\ w.path = <<ja, index_md>>
    /\ ja \in dirs

\* "demo" has en.md only; ja is written to ja.md
C1_Witness_Flat ==
    /\ pc = "done"
    /\ InitialFiles = {<<en \o md>>}
    /\ \E w \in WriteLog : w.locale = ja /\ w.path = <<ja \o md>>
    /\ <<ja, index_md>> \notin DOMAIN files

CallLog == {calls[i] : i \in DOMAIN calls}

Written(locale) == \E w \in WriteLog : w.locale = locale

InList(list, locale) == \E i \in DOMAIN list : list[i] = locale

\* position of the locale in the selection
PositionOf(locale) == CHOOSE i \in DOMAIN targetLocales : targetLocales[i] = locale

\* C2: a body call that throws or answers with an empty or whitespace-only
\* message writes no file for its locale and puts the locale in the failure
\* list; the loop goes on to the next locale and ends with every requested
\* locale processed.
C2_BodyFailureIsFatalForLocale ==
    \A c \in CallLog :
        (c.field = "body" /\ c.answer = "bad") =>
            /\ ~Written(c.locale)
            /\ InList(stats.failed, c.locale)
            /\ ~InList(stats.success, c.locale)
            /\ idx > PositionOf(c.locale)
            /\ pc \in {"loop", "title", "description", "body", "done"}
            /\ pc = "done" =>
                  \A t \in Range(targetLocales) :
                      InList(stats.success, t) \/ InList(stats.failed, t)

\* the body call of the first locale failed and the second locale succeeded
C2_Witness ==
    /\ pc = "done"
    /\ Len(targetLocales) = 2
    /\ \E c \in CallLog :
          c.field = "body" /\ c.answer = "bad" /\ c.locale = targetLocales[1]
    /\ stats.failed = <<targetLocales[1]>>
    /\ stats.success = <<targetLocales[2]>>
    /\ Written(targetLocales[2]) /\ ~Written(targetLocales[1])

\* the frontmatter and body of the source file
SourceData == matter(sourceContent).data

\* the text every translating answer of the service carries, once trimmed
translation == <<"x">>

AnswerOf(field, locale) ==
    {c.answer : c \in {d \in CallLog : d.field = field /\ d.locale = locale}}

\* C3: a title call that throws or answers empty leaves the source title in the
\* written file, and likewise the description; neither affects the other
\* field, and the locale succeeds whenever its body call succeeds.
C3_MetadataFallback ==
    /\ \A w \in WriteLog :
          /\ "bad" \in AnswerOf("title", w.locale) =>
                Get(w.text.data, "title") = SourceData.title
          /\ "good" \in AnswerOf("title", w.locale) =>
                Get(w.text.data, "title") = translation
          /\ "bad" \in AnswerOf("description", w.locale) =>
                Get(w.text.data, "description") = SourceData.description
          /\ "good" \in AnswerOf("description", w.locale) =>
                Get(w.text.data, "description") = translation
    /\ \A c \in CallLog :
          (c.field = "body" /\ c.answer = "good") =>
              Written(c.locale) /\ InList(stats.success, c.locale)

\* the title call failed, the description call did not, and the file is written
C3_Witness ==
    /\ pc = "done"
    /\ \E w \in WriteLog :
          /\ AnswerOf("title", w.locale) = {"bad"}
          /\ AnswerOf("description", w.locale) = {"good"}
          /\ w.text.data.title = <<"T">>
          /\ w.text.data.description = translation
          /\ InList(stats.success, w.locale)

\* no locale the scan found is ever requested, so line 149 never skips
SkipNeverTaken ==
    /\ skipped = <<>>
    /\ \A t \in Range(targetLocales) : ~targetExists(article, t)

\* C5 as stated: no write goes to a path at which a file existed just before
\* the write, also when the file appeared after the scan.
C5_NeverOverwrites == \A w \in WriteLog : ~w.existed

\* C6: the writes are those of the success list, each of its locales written
\* once; failed and skipped locales are not written; no locale is in both
\* lists; at the end of the loop every requested locale is in exactly one of
\* success, failed and skipped.
C6_OneWritePerSuccess ==
    /\ Len(writes) = Len(stats.success)
    /\ \A t \in Range(stats.success) :
          Cardinality({i \in DOMAIN writes : writes[i].locale = t}) = 1
    /\ \A t \in Range(stats.failed) \cup Range(skipped) : ~Written(t)
    /\ Range(stats.success) \cap Range(stats.failed) = {}
    /\ pc = "done" =>
          \A t \in Range(targetLocales) :
              Cardinality({k \in {"success", "failed", "skipped"} :
                  InList(CASE k = "success" -> stats.success
                           [] k = "failed" -> stats.failed
                           [] OTHER -> skipped, t)}) = 1

C6_Witness ==
    /\ pc = "done"
    /\ Len(targetLocales) = 2
    /\ Len(stats.success) = 1 /\ Len(stats.failed) = 1
    /\ Len(writes) = 1 /\ writes[1].locale = stats.success[1]

\* C7: without TRANSLATE_API_KEY the script ends with exit code 1 at the
\* environment check: no request is sent and no file is written.
C7_MissingKeyIsFatal ==
    TRANSLATE_API_KEY = undefined =>
        /\ pc \in {"start", "exit1"}
        /\ calls = <<>>
        /\ writes = <<>>
        /\ files = [q \in InitialFiles |-> files[q]]

C7_Witness ==
    /\ TRANSLATE_API_KEY = undefined
    /\ pc = "exit1"
    /\ InitialFiles # {}

\* C11: the frontmatter written for a locale has the keys of the source
\* frontmatter, and every key but title and description keeps its source
\* value, whatever the service answered.
C11_OtherKeysUnchanged ==
    \A w \in WriteLog :
        /\ DOMAIN w.text.data = DOMAIN SourceData
        /\ \A k \in DOMAIN SourceData \ {"title", "description"} :
              w.text.data[k] = SourceData[k]

\* the title was translated, the timestamp is the source's and no description
\* key appeared
C11_Witness ==
    /\ pc = "done"
    /\ DOMAIN SourceData = {"title", "timestamp"}
    /\ \E w \in WriteLog :
          /\ w.text.data.title = translation
          /\ w.text.data.timestamp = <<"2", "5">>
          /\ DOMAIN w.text.data = {"title", "timestamp"}

\* the target of the first markdown link of a body: the text between "](" and
\* the next ")"
LinkOf(content) ==
    LET open == CHOOSE i \in DOMAIN content :
                    content[i] = "](" /\ \A j \in 1..(i - 1) : content[j] # "]("
        close == CHOOSE i \in DOMAIN content :
                    i > open /\ content[i] = ")" /\ \A j \in (open + 1)..(i - 1) : content[j] # ")"
    IN  SubSeq(content, open + 1, close - 1)

\* C12: the link of the disclaimer of a written file is /<collection>/<articleId>
\* when the source locale is the default locale and
\* /<sourceLocale>/<collection>/<articleId> otherwise; in multi-locale mode the
\* locale segment is there exactly when generatePathParams gives the source's
\* content identifier a locale.
C12_SourceLinkOmitsDefaultLocale ==
    \A w \in WriteLog :
        /\ LinkOf(w.text.content) =
              IF sourceLocale = config.i18n.defaultLocale
              THEN <<sep>> \o collection \o <<sep>> \o articleId
              ELSE <<sep>> \o sourceLocale \o <<sep>> \o collection \o <<sep>> \o articleId
        /\ ~monolocale =>
              LET route == generatePathParams(articleId \o <<sep>> \o sourceLocale)
              IN  LinkOf(w.text.content) =
                      (IF route.locale = undefined THEN <<>> ELSE <<sep>> \o route.locale)
                          \o <<sep>> \o collection \o <<sep>> \o route.id

\* the source is the default locale: no locale segment
C12_Witness ==
    /\ sourceLocale = config.i18n.defaultLocale
    /\ sourceLocale = zh_cn
    /\ \E w \in WriteLog :
          LinkOf(w.text.content) = <<sep, "note", sep, "demo">>

\* the source is another locale: its code leads the link
C12_Witness_Other ==
    /\ config.i18n.defaultLocale = zh_cn
    /\ sourceLocale = en
    /\ \E w \in WriteLog :
          LinkOf(w.text.content) = <<sep, "e", "n", sep, "jotting", sep, "demo">>

\* the place of a field in translateArticle
Rank(field) ==
    CASE field = "title" -> 1
      [] field = "description" -> 2
      [] field = "body" -> 3

\* C13: the requests to the service are sent one at a time, a request only
\* after the answer to the one before; for a locale in the order title,
\* description, body, each at most once (so at most three, and none again after
\* a failure); all requests of a locale before any of the next locale.
C13_SequentialCalls ==
    /\ \A i \in 1..(Len(calls) - 1) : calls[i].answer # "pending"
    /\ \A i, j \in DOMAIN calls :
          i < j =>
              /\ PositionOf(calls[i].locale) <= PositionOf(calls[j].locale)
              /\ calls[i].locale = calls[j].locale =>
                    Rank(calls[i].field) < Rank(calls[j].field)
    /\ \A t \in Range(targetLocales) :
          Cardinality({i \in DOMAIN calls : calls[i].locale = t}) <= 3
    /\ \A i \in DOMAIN calls :
          calls[i].field = "body" =>
              \A j \in DOMAIN calls :
                  (calls[j].locale = calls[i].locale /\ j # i) =>
                      j < i /\ calls[j].answer # "pending"

\* two locales, three requests each; the failed title request of the first
\* locale is not sent again
C13_Witness ==
    /\ pc = "done"
    /\ Len(targetLocales) = 2
    /\ Len(calls) = 6
    /\ calls[1].answer = "bad"
    /\ [i \in 1..6 |-> calls[i].field] =
          <<"title", "description", "body", "title", "description", "body">>
    /\ [i \in 1..6 |-> calls[i].locale] =
          <<targetLocales[1], targetLocales[1], targetLocales[1],
            targetLocales[2], targetLocales[2], targetLocales[2]>>

\* C14: the step in which the body translation of a locale fails, and every
\* step that adds a locale to the failure list, changes neither the files
\* nor the directories of the article, also for a directory-shaped source.
C14_FailedBodyLeavesFsUnchanged ==
    [][((pc = "body" /\ pc' = "loop" /\ calls'[Len(calls')].answer = "bad")
            \/ Len(stats'.failed) > Len(stats.failed))
          => (files' = files /\ dirs' = dirs)]_vars

\* the source is directory-shaped, the body translation for ja failed, and
\* there is no ja directory
C14_Witness ==
    /\ pc = "done"
    /\ HasSubdirectory(article, sourceLocale)
    /\ stats.failed = <<ja>>
    /\ \E c \in CallLog : c.locale = ja /\ c.field = "body" /\ c.answer = "bad"
    /\ ja \notin dirs
    /\ \A q \in DOMAIN files : q[1] # ja /\ q[1] # ja \o md

====
